---------------------------- MODULE Spec2Model ----------------------------
(***************************************************************************)
(* Model of the vulnerability correlation and alerting engine:             *)
(*   backend/services/alert_checker.py   (AlertChecker, notify_all_services)*)
(*   backend/services/vendor_scraper.py  (fetch_all_vendor_advisories)     *)
(*   backend/services/cve_scraper.py     (fetch_recent_cves)               *)
(*   backend/scheduler/cron.py           (VulnerabilityScheduler)          *)
(*   backend/routers/alerts.py           (update_alert, acknowledge_alert) *)
(*                                                                         *)
(* Python strings are modelled as sequences of one-character strings, so   *)
(* that lower(), re.sub, `in` and split(':') are computed, not assumed.    *)
(***************************************************************************)
EXTENDS Integers, Sequences, FiniteSets, TLC

VARIABLES
    mq,              \* matcher harness: the call being evaluated and its result
    fq,              \* feed harness: per-source payloads/outcomes and the result
    sq,              \* parser harness: the metrics of a CVE item and the result
    eq,              \* email harness: the message being sent, its attempts so far
    rq,              \* tenant API: the last request and its response code
    hist,            \* per observed invocation, while it runs: the identifiers
                     \* its fetch returned, whether _run_cleanup_tasks ran
                     \* since it started, and the composite identities of
                     \* the alerts it sent a notification for
    processed_cves,  \* AlertChecker.processed_cves
    processed_advisories, \* AlertChecker.processed_advisories
    alerts,          \* committed rows of table "alerts" (position = id)
    audit_logs,      \* committed rows of table "audit_logs"
    run,             \* per invocation of _run_vulnerability_check: its locals
    cycles,          \* number of cycles started so far
    nfail,           \* number of store failures injected so far
    nops,            \* number of tenant API calls so far
    skipped          \* composite identities skipped by the existence check

vars == <<mq, fq, sq, eq, rq, hist, processed_cves, processed_advisories, alerts, audit_logs,
          run, cycles, nfail, nops, skipped>>

(***************************************************************************)
(* Bounds of the model.                                                    *)
(***************************************************************************)
MaxNameLen == 2
MaxFeedLen == 1
MaxCycles == 2
MaxFail == 1
MaxTenantOps == 2
MaxScore == 100         \* CVSS base scores in tenths: 0.0 .. 10.0

(***************************************************************************)
(* Strings.                                                                *)
(***************************************************************************)
NoneStr == <<"<None>">>

Truthy(s) == s # NoneStr /\ s # <<>>

LowerChar(c) ==
    CASE c = "A" -> "a" [] c = "B" -> "b" [] c = "C" -> "c" [] c = "D" -> "d"
      [] c = "E" -> "e" [] c = "F" -> "f" [] c = "G" -> "g" [] c = "H" -> "h"
      [] c = "I" -> "i" [] c = "J" -> "j" [] c = "K" -> "k" [] c = "L" -> "l"
      [] c = "M" -> "m" [] c = "N" -> "n" [] c = "O" -> "o" [] c = "P" -> "p"
      [] c = "Q" -> "q" [] c = "R" -> "r" [] c = "S" -> "s" [] c = "T" -> "t"
      [] c = "U" -> "u" [] c = "V" -> "v" [] c = "W" -> "w" [] c = "X" -> "x"
      [] c = "Y" -> "y" [] c = "Z" -> "z" [] OTHER -> c

Lower(s) == [i \in 1..Len(s) |-> LowerChar(s[i])]

LowerAlnum ==
    {"a","b","c","d","e","f","g","h","i","j","k","l","m","n","o","p","q","r",
     "s","t","u","v","w","x","y","z","0","1","2","3","4","5","6","7","8","9"}

IsLowerAlnum(c) == c \in LowerAlnum

\* normalize = lambda x: re.sub(r'[^a-z0-9]', '', x.lower())
normalize(x) == SelectSeq(Lower(x), IsLowerAlnum)

\* Python's `a in b` for strings
IsSubstring(a, b) ==
    \E k \in 0..(Len(b) - Len(a)) : SubSeq(b, k + 1, k + Len(a)) = a

\* Python's `x in xs` for lists
InList(x, xs) == \E k \in 1..Len(xs) : xs[k] = x

RECURSIVE SplitFrom(_, _, _, _)
SplitFrom(s, sep, k, cur) ==
    IF k > Len(s) THEN <<cur>>
    ELSE IF s[k] = sep THEN <<cur>> \o SplitFrom(s, sep, k + 1, <<>>)
    ELSE SplitFrom(s, sep, k + 1, Append(cur, s[k]))

\* str.split(sep)
Split(s, sep) == SplitFrom(s, sep, 1, <<>>)

RECURSIVE Join(_, _)
Join(parts, sep) ==
    IF Len(parts) = 0 THEN <<>>
    ELSE IF Len(parts) = 1 THEN parts[1]
    ELSE parts[1] \o <<sep>> \o Join(Tail(parts), sep)

(***************************************************************************)
(* Names used by the alias table, the fixtures and the harness.            *)
(***************************************************************************)
s_microsoft == <<"m","i","c","r","o","s","o","f","t">>
s_msft == <<"m","s","f","t">>
s_ms == <<"m","s">>
s_cisco == <<"c","i","s","c","o">>
s_csco == <<"c","s","c","o">>
s_fortinet == <<"f","o","r","t","i","n","e","t">>
s_forti == <<"f","o","r","t","i">>
s_apache == <<"a","p","a","c","h","e">>
s_apache_sf == <<"a","p","a","c","h","e"," ","s","o","f","t","w","a","r","e"," ",
                 "f","o","u","n","d","a","t","i","o","n">>
s_Cisco == <<"C","i","s","c","o">>
s_CiscoSystems == <<"C","i","s","c","o"," ","S","y","s","t","e","m","s">>
s_Fortinet == <<"F","o","r","t","i","n","e","t">>
s_Microsoft == <<"M","i","c","r","o","s","o","f","t">>
s_Juniper == <<"J","u","n","i","p","e","r">>
s_juniper == <<"j","u","n","i","p","e","r">>
s_apple == <<"a","p","p","l","e">>
s_paloalto == <<"p","a","l","o"," ","a","l","t","o">>
s_Apache == <<"A","p","a","c","h","e">>
s_HTTPServer == <<"H","T","T","P"," ","S","e","r","v","e","r">>
s_http_server == <<"h","t","t","p","_","s","e","r","v","e","r">>
s_ASA == <<"A","S","A">>
s_asa == <<"a","s","a">>
s_IOS == <<"I","O","S">>
s_SRX == <<"S","R","X">>
s_star == <<"*">>
s_dash == <<"-">>
s_cpe == <<"c","p","e">>
s_23 == <<"2",".","3">>
s_a == <<"a">>
s_h == <<"h">>
s_2454 == <<"2",".","4",".","5","4">>
s_2455 == <<"2",".","4",".","5","5">>
s_10 == <<"1",".","0">>

\* "cpe:2.3:<part>:<vendor>:<product>:<version>:*:*:*:*:*:*:*"
Cpe23(part, vendor, product, version) ==
    Join(<<s_cpe, s_23, part, vendor, product, version,
           s_star, s_star, s_star, s_star, s_star, s_star, s_star>>, ":")

cpe_cisco_asa == Cpe23(s_h, s_cisco, s_asa, s_dash)
cpe_apache_2454 == Cpe23(s_a, s_apache, s_http_server, s_2454)
cpe_apache_2455 == Cpe23(s_a, s_apache, s_http_server, s_2455)
cpe_apache_any == Cpe23(s_a, s_apache, s_http_server, s_star)
cpe_apache_asa == Cpe23(s_a, s_apache, s_asa, s_2454)
cpe_cisco_http == Cpe23(s_a, s_cisco, s_http_server, s_2454)
\* malformed / short identifiers a feed may carry
cpe_short == Join(<<s_cpe, s_23, s_a, s_apache>>, ":")
cpe_noversion == Join(<<s_cpe, s_23, s_a, s_apache, s_http_server>>, ":")

(***************************************************************************)
(* Asset matcher (alert_checker.py).                                       *)
(***************************************************************************)
\* vendor_aliases, as (main vendor, alias) pairs
vendor_aliases ==
    { <<s_microsoft, s_msft>>, <<s_microsoft, s_ms>>, <<s_cisco, s_csco>>,
      <<s_fortinet, s_forti>>, <<s_apache, s_apache_sf>> }

FuzzyMatchNorm(norm1, norm2) ==
    \/ norm1 = norm2
    \/ IsSubstring(norm1, norm2) \/ IsSubstring(norm2, norm1)
    \/ \E p \in vendor_aliases :
          \/ (norm1 = p[1] /\ norm2 = p[2])
          \/ (norm2 = p[1] /\ norm1 = p[2])

\* a one-directional variant: text1 within text2, text1 the main vendor
FuzzyMatchOneWay(text1, text2) ==
    LET norm1 == normalize(text1)
        norm2 == normalize(text2)
    IN  \/ norm1 = norm2
        \/ IsSubstring(norm1, norm2)
        \/ \E p \in vendor_aliases : norm1 = p[1] /\ norm2 = p[2]

\* a comparison of the raw texts, without normalize
fuzzy_match_raw(text1, text2) == FuzzyMatchNorm(text1, text2)

\* AlertChecker._fuzzy_match
fuzzy_match(text1, text2) == FuzzyMatchNorm(normalize(text1), normalize(text2))

\* a loop body that compares the major versions only
CpeMatchesMajorVersion(asset, cpe) ==
    LET cpe_parts == Split(cpe, ":")
        asset_version == IF Truthy(asset.version) THEN Lower(asset.version) ELSE <<>>
    IN  /\ Len(cpe_parts) >= 5
        /\ LET cpe_version == IF Len(cpe_parts) > 5 THEN Lower(cpe_parts[6]) ELSE <<>>
           IN  /\ fuzzy_match(Lower(asset.vendor), Lower(cpe_parts[4]))
               /\ fuzzy_match(Lower(asset.product), Lower(cpe_parts[5]))
               /\ \/ asset_version = <<>>
                  \/ cpe_version = <<>>
                  \/ cpe_version = s_star
                  \/ Head(asset_version) = Head(cpe_version)

\* one CPE of the loop body of _is_asset_affected_by_cve (lines 188-204)
CpeMatches(asset, cpe) ==
    LET cpe_parts == Split(cpe, ":")
        asset_vendor == Lower(asset.vendor)
        asset_product == Lower(asset.product)
        asset_version == IF Truthy(asset.version) THEN Lower(asset.version) ELSE <<>>
    IN  /\ Len(cpe_parts) >= 5
        /\ LET cpe_vendor == Lower(cpe_parts[4])
               cpe_product == Lower(cpe_parts[5])
               cpe_version == IF Len(cpe_parts) > 5 THEN Lower(cpe_parts[6]) ELSE <<>>
           IN  /\ fuzzy_match(asset_vendor, cpe_vendor)
               /\ fuzzy_match(asset_product, cpe_product)
               /\ \/ asset_version = <<>>
                  \/ cpe_version = <<>>
                  \/ cpe_version = s_star
                  \/ asset_version = cpe_version

\* a fuzzy branch that takes the vendor from one CPE and the product from another
IsAffectedAcrossCpes(asset, cve_cpes) ==
    /\ Truthy(asset.vendor) /\ Truthy(asset.product)
    /\ \E k \in 1..Len(cve_cpes) :
          /\ Len(Split(cve_cpes[k], ":")) >= 5
          /\ fuzzy_match(Lower(asset.vendor), Lower(Split(cve_cpes[k], ":")[4]))
    /\ \E k \in 1..Len(cve_cpes) :
          /\ Len(Split(cve_cpes[k], ":")) >= 5
          /\ fuzzy_match(Lower(asset.product), Lower(Split(cve_cpes[k], ":")[5]))

\* the fuzzy branch alone, without the direct CPE comparison
IsAffectedFuzzyOnly(asset, cve_cpes) ==
    /\ Truthy(asset.vendor) /\ Truthy(asset.product)
    /\ \E k \in 1..Len(cve_cpes) : CpeMatches(asset, cve_cpes[k])

\* a matcher that skips the direct CPE comparison
is_asset_affected_without_direct(asset, cve_cpes) == IsAffectedFuzzyOnly(asset, cve_cpes)

\* AlertChecker._is_asset_affected_by_cve
is_asset_affected_by_cve(asset, cve_cpes) ==
    \/ (Truthy(asset.cpe_string) /\ InList(asset.cpe_string, cve_cpes))
    \/ IsAffectedFuzzyOnly(asset, cve_cpes)

\* a vendor check that accepts every asset that has a vendor
is_asset_affected_by_any_advisory(asset, advisory) == Truthy(asset.vendor)

\* AlertChecker._is_asset_affected_by_vendor_advisory
is_asset_affected_by_vendor_advisory(asset, advisory) ==
    /\ Truthy(asset.vendor)
    /\ fuzzy_match(Lower(asset.vendor), Lower(advisory.vendor))


\* AlertChecker._find_affected_assets; user_assets is a list of (user, asset)
find_affected_assets(cve, user_assets) ==
    IF Len(cve.affected_cpes) = 0 THEN <<>>
    ELSE LET hit(p) == is_asset_affected_by_cve(p.asset, cve.affected_cpes)
         IN  SelectSeq(user_assets, hit)

\* AlertChecker._find_affected_assets_by_vendor
find_affected_assets_by_vendor(advisory, user_assets) ==
    LET hit(p) == is_asset_affected_by_vendor_advisory(p.asset, advisory)
    IN  SelectSeq(user_assets, hit)

(***************************************************************************)
(* Matcher harness: the inputs a call is made with.                        *)
(***************************************************************************)
NameAlphabet == {"m", "s", "M", "-"}

RECURSIVE StringsUpTo(_)
StringsUpTo(n) ==
    IF n = 0 THEN {<<>>}
    ELSE LET shorter == StringsUpTo(n - 1)
         IN  shorter \cup {Append(s, c) : s \in shorter, c \in NameAlphabet}

Names ==
    StringsUpTo(MaxNameLen) \cup
    { s_microsoft, s_msft, s_ms, s_cisco, s_csco, s_fortinet, s_forti,
      s_apache, s_apache_sf, s_Cisco, s_CiscoSystems, s_Microsoft, s_juniper,
      s_apple, s_paloalto, s_HTTPServer, s_http_server, s_star, s_dash }

MatchAssets ==
    [ vendor : {NoneStr, <<>>, s_Cisco, s_Apache, s_Juniper},
      product : {NoneStr, s_ASA, s_HTTPServer, s_SRX},
      version : {NoneStr, <<>>, s_2454, s_star, s_10},
      cpe_string : {NoneStr, <<>>, cpe_cisco_asa, cpe_apache_2454} ]

MatchCpeLists ==
    { <<>>, <<cpe_cisco_asa>>, <<cpe_apache_2454>>, <<cpe_apache_2455>>,
      <<cpe_apache_any>>, <<cpe_noversion>>, <<cpe_short>>, << <<>> >>,
      <<cpe_apache_asa, cpe_cisco_http>>, <<cpe_apache_2455, cpe_cisco_asa>>,
      <<cpe_short, cpe_apache_2454>> }

MatchAdvisoryVendors == {<<>>, s_Cisco, s_Microsoft, s_Fortinet, s_forti, s_csco}

NoAsset == [vendor |-> NoneStr, product |-> NoneStr, version |-> NoneStr,
            cpe_string |-> NoneStr]

\* the other (tenant, asset) row of the snapshot handed to _find_affected_assets
OtherRow == [user |-> 2, asset |-> [vendor |-> s_Juniper, product |-> s_SRX,
                                    version |-> s_10, cpe_string |-> NoneStr]]

NoCall == [kind |-> "none", text1 |-> <<>>, text2 |-> <<>>, asset |-> NoAsset,
           cpes |-> <<>>, done |-> FALSE, out |-> FALSE, out2 |-> FALSE,
           found |-> <<>>]

FuzzyCalls == {[NoCall EXCEPT !.kind = "fuzzy", !.text1 = a, !.text2 = b] :
                 a \in Names, b \in Names}

CveCalls == {[NoCall EXCEPT !.kind = "cve", !.asset = a, !.cpes = c] :
               a \in MatchAssets, c \in MatchCpeLists}

AdvCalls == {[NoCall EXCEPT !.kind = "adv", !.asset = a, !.text2 = v] :
               a \in MatchAssets, v \in MatchAdvisoryVendors}

\* _fuzzy_match(text1, text2), and the call with the arguments exchanged
ApplyFuzzyMatch ==
    /\ mq.kind = "fuzzy" /\ ~mq.done
    /\ mq' = [mq EXCEPT !.done = TRUE,
                        !.out = fuzzy_match(mq.text1, mq.text2),
                        !.out2 = fuzzy_match(mq.text2, mq.text1)]

\* _is_asset_affected_by_cve and _find_affected_assets over a two-row snapshot
ApplyAffectedByCve ==
    /\ mq.kind = "cve" /\ ~mq.done
    /\ mq' = [mq EXCEPT !.done = TRUE,
                        !.out = is_asset_affected_by_cve(mq.asset, mq.cpes),
                        !.found = find_affected_assets(
                                     [affected_cpes |-> mq.cpes],
                                     <<OtherRow, [user |-> 1, asset |-> mq.asset]>>)]

\* _is_asset_affected_by_vendor_advisory and _find_affected_assets_by_vendor
ApplyAffectedByAdvisory ==
    /\ mq.kind = "adv" /\ ~mq.done
    /\ mq' = [mq EXCEPT !.done = TRUE,
                        !.out = is_asset_affected_by_vendor_advisory(mq.asset, [vendor |-> mq.text2]),
                        !.found = find_affected_assets_by_vendor(
                                     [vendor |-> mq.text2],
                                     <<OtherRow, [user |-> 1, asset |-> mq.asset]>>)]


(***************************************************************************)
(* Feed ingestion (cve_scraper.py, vendor_scraper.py).  A call either      *)
(* returns a value or raises.                                              *)
(***************************************************************************)
Returns(v) == [raised |-> FALSE, value |-> v]
Raises == [raised |-> TRUE, value |-> <<>>]

FeedOutcomes == {"ok", "network_error", "bad_status", "malformed"}

\* the try-block of a fetch_* method: client.get, raise_for_status, parsing
fetch_body(src) == IF src.outcome = "ok" THEN Returns(src.payload) ELSE Raises

\* try: ... except Exception: return []   (every fetch_* method)
fetch_guarded(src) ==
    LET r == fetch_body(src) IN IF r.raised THEN Returns(<<>>) ELSE r

\* CVEScraper.fetch_recent_cves
fetch_recent_cves(src) == fetch_guarded(src)

\* VendorScraper.fetch_cisco_advisories / _fortinet_ / _microsoft_
fetch_vendor_advisories(src) == fetch_guarded(src)

RECURSIVE ExtendAll(_, _)
\* for result in results: if isinstance(result, list): all.extend(result)
ExtendAll(results, k) ==
    IF k > Len(results) THEN <<>>
    ELSE (IF results[k].raised THEN <<>> ELSE results[k].value)
         \o ExtendAll(results, k + 1)

\* a gather that lets the first failing source abort the whole fetch
fetch_all_abort_on_failure(srcs) ==
    IF \E k \in 1..Len(srcs) : srcs[k].outcome # "ok"
    THEN Returns(<<>>)
    ELSE Returns(ExtendAll([k \in 1..Len(srcs) |-> Returns(srcs[k].payload)], 1))

\* VendorScraper.fetch_all_vendor_advisories; srcs = <<cisco, fortinet, microsoft>>
fetch_all_vendor_advisories(srcs) ==
    LET results == [k \in 1..Len(srcs) |-> fetch_vendor_advisories(srcs[k])]
    IN  Returns(ExtendAll(results, 1))

(***************************************************************************)
(* Feed harness: payloads and outcomes of the sources of one ingestion.    *)
(***************************************************************************)
RECURSIVE ListsUpTo(_, _)
ListsUpTo(S, n) ==
    IF n = 0 THEN {<<>>}
    ELSE LET shorter == ListsUpTo(S, n - 1)
         IN  shorter \cup {Append(l, x) : l \in shorter, x \in S}

HarnessSource(ids) ==
    [outcome : FeedOutcomes, payload : ListsUpTo(ids, MaxFeedLen)]

NoFetch == [kind |-> "none", srcs |-> <<>>, done |-> FALSE,
            raised |-> FALSE, value |-> <<>>]

CveFetches ==
    {[NoFetch EXCEPT !.kind = "cve", !.srcs = <<s>>] :
        s \in HarnessSource({"CVE-1", "CVE-2"})}

VendorFetches ==
    {[NoFetch EXCEPT !.kind = "vendor", !.srcs = <<c, f, m>>] :
        c \in HarnessSource({"cisco-sa-1", "cisco-sa-2"}),
        f \in HarnessSource({"FG-IR-1", "FG-IR-2"}),
        m \in HarnessSource({"2024-Jan", "2024-Feb"})}

ApplyFetchRecentCves ==
    /\ fq.kind = "cve" /\ ~fq.done
    /\ LET r == fetch_recent_cves(fq.srcs[1])
       IN  fq' = [fq EXCEPT !.done = TRUE, !.raised = r.raised, !.value = r.value]

ApplyFetchAllVendorAdvisories ==
    /\ fq.kind = "vendor" /\ ~fq.done
    /\ LET r == fetch_all_vendor_advisories(fq.srcs)
       IN  fq' = [fq EXCEPT !.done = TRUE, !.raised = r.raised, !.value = r.value]

(***************************************************************************)
(* Stores read by the engine: tenants and their assets (read-only).        *)
(***************************************************************************)
None == "None"

\* process-wide defaults: os.getenv("SLACK_WEBHOOK_URL"), os.getenv("GENERIC_WEBHOOK_URL")
slack_webhook == "https://default/slack"
generic_webhook == "https://default/hook"

\* EmailService._is_configured (api_key, domain and from_email are set)
email_is_configured == TRUE

\* rows of table "users"; tenant 1 carries both overrides, tenant 3 is inactive
Users ==
    << [id |-> 1, is_active |-> TRUE, slack_webhook_url |-> "https://t1/slack",
        webhook_url |-> "https://t1/hook"],
       [id |-> 2, is_active |-> TRUE, slack_webhook_url |-> None,
        webhook_url |-> None],
       [id |-> 3, is_active |-> FALSE, slack_webhook_url |-> None,
        webhook_url |-> None] >>

\* rows of table "assets"
Assets ==
    << [id |-> 1, user_id |-> 1, vendor |-> s_Cisco, product |-> s_ASA,
        version |-> NoneStr, cpe_string |-> cpe_cisco_asa],
       [id |-> 2, user_id |-> 2, vendor |-> s_CiscoSystems, product |-> s_IOS,
        version |-> s_10, cpe_string |-> NoneStr],
       [id |-> 3, user_id |-> 2, vendor |-> s_Apache, product |-> s_HTTPServer,
        version |-> s_2454, cpe_string |-> NoneStr],
       [id |-> 4, user_id |-> 3, vendor |-> s_Cisco, product |-> s_ASA,
        version |-> NoneStr, cpe_string |-> cpe_cisco_asa] >>

\* the join without the filter on User.is_active
AllUserAssets ==
    [k \in 1..Len(Assets) |-> [user |-> Users[Assets[k].user_id], asset |-> Assets[k]]]

\* select(User, Asset).join(Asset, User.id == Asset.user_id).where(User.is_active == True)
ActiveUserAssets ==
    LET rows == [k \in 1..Len(Assets) |->
                    [user |-> Users[Assets[k].user_id], asset |-> Assets[k]]]
        active(p) == p.user.is_active
    IN  SelectSeq(rows, active)

\* what the upstream sources hold (parsed records)
CveFeed ==
    << [cve_id |-> "CVE-2024-0001", severity |-> "critical", cvss_score |-> 91,
        affected_cpes |-> <<cpe_apache_2454>>] >>

CiscoFeed == << [vendor_advisory_id |-> "cisco-sa-1", vendor |-> s_Cisco,
                 severity |-> "high"] >>
FortinetFeed == << [vendor_advisory_id |-> "FG-IR-1", vendor |-> s_Fortinet,
                    severity |-> "medium"] >>
MicrosoftFeed == <<>>

(***************************************************************************)
(* Alert store and session (models/alert.py, SQLAlchemy session).          *)
(***************************************************************************)
\* the mapped attributes of class Alert
AlertColumns ==
    {"id", "user_id", "asset_id", "cve_id", "vendor_advisory_id", "title",
     "description", "severity", "cvss_score", "status", "sent_at",
     "acknowledged_at", "source_url", "created_at", "updated_at", "user", "asset"}

\* keyword arguments of Alert(...) in _create_alert_from_cve (lines 266-278)
CveAlertKwargs ==
    {"user_id", "asset_id", "cve_id", "title", "description", "severity",
     "cvss_score", "exploitability", "remediation", "source_url", "status"}

\* keyword arguments of Alert(...) in _create_alert_from_advisory (lines 312-321)
AdvisoryAlertKwargs ==
    {"user_id", "asset_id", "vendor_advisory_id", "title", "description",
     "severity", "source_url", "status"}

\* the declarative constructor raises TypeError on a keyword that is no attribute
AlertCtorAccepts(kwargs) == kwargs \subseteq AlertColumns

AlertStatus == {"pending", "sent", "failed", "acknowledged"}

\* an Alert created with the status of a completed dispatch
NewAlertSent(user, asset, cve_id, adv_id, severity, score) ==
    [user_id |-> user.id, asset_id |-> asset.id, cve_id |-> cve_id,
     vendor_advisory_id |-> adv_id, severity |-> severity, cvss_score |-> score,
     status |-> "sent", acknowledged_at |-> None]

NewAlert(user, asset, cve_id, adv_id, severity, score) ==
    [user_id |-> user.id, asset_id |-> asset.id, cve_id |-> cve_id,
     vendor_advisory_id |-> adv_id, severity |-> severity, cvss_score |-> score,
     status |-> "pending", acknowledged_at |-> None]

\* rows a session sees: committed rows and its own flushed rows
Visible(st) == alerts \o st.pending

\* select(Alert).where(user_id ==, asset_id ==, <col> ==), number of rows
CountAlerts(rows, col, uid, aid, vid) ==
    Cardinality({k \in 1..Len(rows) :
        /\ rows[k].user_id = uid /\ rows[k].asset_id = aid
        /\ (IF col = "cve_id" THEN rows[k].cve_id ELSE rows[k].vendor_advisory_id) = vid})

\* an existence check that never finds a row
no_existing(rows, col, uid, aid, vid) == "none"

\* existing.scalar_one_or_none(): "none", "one", or raises MultipleResultsFound
scalar_one_or_none(rows, col, uid, aid, vid) ==
    LET n == CountAlerts(rows, col, uid, aid, vid)
    IN  IF n = 0 THEN "none" ELSE IF n = 1 THEN "one" ELSE "raises"

(***************************************************************************)
(* Notification channels (email_alert.py, slack_webhook.py).               *)
(***************************************************************************)
EmailOutcomes == {"sent", "bad_status", "error"}
HookOutcomes == {"ok", "error"}

\* _send_email without its try/except: a network error or timeout propagates
send_email_unguarded(outcome) ==
    IF outcome = "error" THEN Raises ELSE Returns(outcome = "sent")

\* EmailService.send_*_alert -> _send_email: True on 200, False otherwise
send_email(outcome) ==
    IF ~email_is_configured THEN Returns(FALSE)
    ELSE Returns(outcome = "sent")

\* SlackNotificationService.send / WebhookNotificationService.send
hook_send(url, outcome) == Returns(outcome)

NoUser == [id |-> 0, is_active |-> FALSE, slack_webhook_url |-> None,
           webhook_url |-> None]

Or(a, b) == IF a # None THEN a ELSE b

\* notify_all_services(message, user): the URLs it selects
notify_urls(user) ==
    [slack |-> Or(user.slack_webhook_url, slack_webhook),
     webhook |-> Or(user.webhook_url, generic_webhook)]

\* the `user` argument at the call sites of lines 287 and 330: not passed
notify_user_argument(user) == NoUser

(***************************************************************************)
(* One invocation of _run_vulnerability_check -> check_new_vulnerabilities.*)
(* "sched" is the APScheduler job (max_instances=1), "manual" a call of    *)
(* trigger_vulnerability_check.                                            *)
(*                                                                         *)
(* A step is one awaited store call together with the synchronous code     *)
(* that runs when it returns, up to the next awaited store call; calls     *)
(* that touch nothing shared (feeds, enrichment, channel sends, the        *)
(* session's own flush) are folded into the step they precede.  Rows       *)
(* flushed by a session are visible to that session only, until it commits.*)
(***************************************************************************)
Runners == {"sched", "manual"}

NoFlow == [user_id |-> 0, asset_id |-> 0, vid |-> None, email |-> "none",
           slack_url |-> None, slack |-> "none",
           webhook_url |-> None, webhook |-> "none"]

IdleRun == [pc |-> "idle", phase |-> "none", cves |-> <<>>, advs |-> <<>>,
            i |-> 0, pairs |-> <<>>, j |-> 0, pending |-> <<>>, caught |-> "none",
            broken |-> FALSE, flow |-> NoFlow, cnv |-> "none", job |-> "none"]

\* the innermost try/except Exception enclosing a raising call
handler_of_no_outer(site) ==
    IF site \in {"fetch", "inventory", "match", "final_commit"}
    THEN "_run_vulnerability_check"
    ELSE IF site = "audit_commit" THEN "log_audit"
    ELSE "_create_alert"

handler_of(site) ==
    IF site \in {"fetch", "inventory", "match", "final_commit"}
    THEN "check_new_vulnerabilities"
    ELSE IF site = "audit_commit" THEN "log_audit"
    ELSE "_create_alert"

\* the invocation ends: the exception raised at `site` reached its handler
Aborted(st, site) ==
    [IdleRun EXCEPT
        !.caught = site,
        !.cnv = IF handler_of(site) = "check_new_vulnerabilities"
                THEN "returned" ELSE "raised",
        !.job = IF handler_of(site) \in {"check_new_vulnerabilities",
                                         "_run_vulnerability_check"}
                THEN "returned" ELSE "raised"]

Completed == [IdleRun EXCEPT !.cnv = "returned", !.job = "returned"]

StoreChoices == IF nfail < MaxFail THEN {"ok", "fail"} ELSE {"ok"}

RecId(kind, rec) == IF kind = "cve" THEN rec.cve_id ELSE rec.vendor_advisory_id

\* the matcher's results over the inventory snapshot, per record of the feeds
\* (the matcher reads affected_cpes of a CVE and vendor of an advisory)
AffectedByCpes ==
    [c \in {CveFeed[k].affected_cpes : k \in 1..Len(CveFeed)} |->
        find_affected_assets([affected_cpes |-> c], ActiveUserAssets)]

AffectedByVendor ==
    LET feed == CiscoFeed \o FortinetFeed \o MicrosoftFeed
    IN  [v \in {feed[k].vendor : k \in 1..Len(feed)} |->
            find_affected_assets_by_vendor([vendor |-> v], ActiveUserAssets)]

\* affected_combinations of the loops of lines 103-104 and 135-138
Affected(kind, rec) ==
    IF kind = "cve" THEN AffectedByCpes[rec.affected_cpes]
    ELSE AffectedByVendor[rec.vendor]

\* whether matching the record reads attributes of the inventory rows
TouchesInventory(kind, rec) ==
    /\ Len(ActiveUserAssets) > 0
    /\ (kind = "cve" => Len(rec.affected_cpes) > 0)

\* the identifiers of a list of records
IdsOf(kind, recs) == {RecId(kind, recs[k]) : k \in 1..Len(recs)}

NoHist == [cves |-> {}, advs |-> {}, cleared |-> FALSE, notified |-> {}]

\* no invocation is observed
NoObserver == [r \in {} |-> NoHist]

\* the record of invocation r is dropped when the invocation ends
Settle(r) ==
    IF r \in DOMAIN hist /\ run'[r].pc = "idle" THEN [hist EXCEPT ![r] = NoHist]
    ELSE hist

RECURSIVE Seek(_, _, _, _)
\* the loop over new records from index i up to the first record with an
\* affected (user, asset); records without one are marked processed on the way.
\* After a rollback the rows of the snapshot are expired: reading one raises.
Seek(kind, new, i, broken) ==
    IF i > Len(new) THEN [i |-> i, pairs |-> <<>>, marked |-> {}, raised |-> FALSE]
    ELSE IF broken /\ TouchesInventory(kind, new[i])
    THEN [i |-> i, pairs |-> <<>>, marked |-> {}, raised |-> TRUE]
    ELSE LET pairs == Affected(kind, new[i])
         IN  IF Len(pairs) > 0
             THEN [i |-> i, pairs |-> pairs, marked |-> {}, raised |-> FALSE]
             ELSE LET rest == Seek(kind, new, i + 1, broken)
                  IN  [rest EXCEPT !.marked = @ \cup {RecId(kind, new[i])}]

NewList(st, kind) == IF kind = "cve" THEN st.cves ELSE st.advs

\* position the invocation on the record/pair found by Seek
Positioned(st, kind, sk) ==
    IF sk.raised THEN Aborted(st, "match")
    ELSE [st EXCEPT !.pc = IF sk.i > Len(NewList(st, kind)) THEN "commit" ELSE "pair",
                    !.phase = kind, !.i = sk.i, !.pairs = sk.pairs, !.j = 1,
                    !.flow = NoFlow]

\* a cycle that marks nothing as processed
MarkProcessedNever(kind, ids) ==
    UNCHANGED <<processed_cves, processed_advisories>>

\* marking that keeps only the identifiers of the current step
MarkProcessedOnly(kind, ids) ==
    /\ processed_cves' = IF kind = "cve" THEN ids ELSE processed_cves
    /\ processed_advisories' = IF kind = "adv" THEN ids ELSE processed_advisories

\* self.processed_cves.add(...) / self.processed_advisories.add(...)
MarkProcessed(kind, ids) ==
    /\ processed_cves' = IF kind = "cve" THEN processed_cves \cup ids
                         ELSE processed_cves
    /\ processed_advisories' = IF kind = "adv" THEN processed_advisories \cup ids
                               ELSE processed_advisories

\* the dedup filter of _process_vendor_advisories (lines 116-123); the session
\* of the CVE phase is closed, a new one is opened
EnterAdvisories(advs) ==
    LET fresh(rec) == rec.vendor_advisory_id \notin processed_advisories
        new == SelectSeq(advs, fresh)
    IN  IF Len(new) = 0 THEN Completed
        ELSE [IdleRun EXCEPT !.pc = "inventory", !.phase = "adv", !.advs = new]

\* the dedup filter of _process_cves (lines 87-91), then line 78 when nothing is new
EnterCves(cves, advs) ==
    LET fresh(rec) == rec.cve_id \notin processed_cves
        new == SelectSeq(cves, fresh)
    IN  IF Len(new) = 0 THEN EnterAdvisories(advs)
        ELSE [IdleRun EXCEPT !.pc = "inventory", !.phase = "cve",
                             !.cves = new, !.advs = advs]

\* the scheduler job fires, or trigger_vulnerability_check is called: both
\* feeds are fetched (lines 67-72) and _process_cves starts
StartWith(r, cisco) ==
    /\ run[r].pc = "idle"
    /\ cycles < MaxCycles
    /\ \E oc \in {"ok", "network_error"}, ov \in [1..3 -> {"ok", "bad_status"}] :
          LET cves_data == fetch_recent_cves([outcome |-> oc, payload |-> CveFeed])
              adv_data == fetch_all_vendor_advisories(
                  << [outcome |-> ov[1], payload |-> cisco],
                     [outcome |-> ov[2], payload |-> FortinetFeed],
                     [outcome |-> ov[3], payload |-> MicrosoftFeed] >>)
          IN  /\ run' = [run EXCEPT ![r] =
                        IF cves_data.raised \/ adv_data.raised
                        THEN Aborted(IdleRun, "fetch")
                        ELSE EnterCves(cves_data.value, adv_data.value)]
              /\ hist' = IF r \notin DOMAIN hist \/ run'[r].pc = "idle" THEN Settle(r)
                          ELSE [hist EXCEPT ![r] =
                                  [cves |-> IdsOf("cve", cves_data.value),
                                   advs |-> IdsOf("adv", adv_data.value),
                                   cleared |-> FALSE, notified |-> {}]]
    /\ cycles' = cycles + 1
    /\ UNCHANGED <<mq, fq, sq, eq, rq, processed_cves, processed_advisories, alerts,
                   audit_logs, nfail, nops, skipped>>

Start(r) == StartWith(r, CiscoFeed)

\* the APScheduler job 'vulnerability_check' (max_instances=1)
StartScheduled == Start("sched")

\* the scheduled job when the Cisco listing shows its advisory in two rows
StartRepeatedBatch == StartWith("sched", CiscoFeed \o CiscoFeed)

\* _parse_cisco_advisory_row (lines 115-133): the text of the row's severity
\* span, None when the row has no such span
parse_cisco_severity(text) ==
    LET severity == IF text # None THEN text ELSE "unknown"
    IN  CASE severity = "Critical" -> "critical"
          [] severity = "High" -> "high"
          [] severity = "Medium" -> "medium"
          [] severity = "Low" -> "low"
          [] OTHER -> "unknown"

SeverityTexts == {"Critical", "High", "Medium", "Low", "Informational", None}

\* the scheduled job when the Cisco listing shows its advisory with any of
\* these severity texts
StartAnySeverity ==
    \E text \in SeverityTexts :
        StartWith("sched", <<[CiscoFeed[1] EXCEPT
                                 !.severity = parse_cisco_severity(text)]>>)

\* VulnerabilityScheduler.trigger_vulnerability_check
StartManual == Start("manual")

\* the inventory read of a phase and the loop up to the first alert creation
\* (lines 95-104, 127-137)
Inventory(r) ==
    LET st == run[r]
        kind == st.phase
    IN  /\ st.pc = "inventory"
        /\ \E x \in StoreChoices :
              IF x = "fail"
              THEN /\ run' = [run EXCEPT ![r] = Aborted(st, "inventory")]
                   /\ nfail' = nfail + 1
                   /\ UNCHANGED <<processed_cves, processed_advisories>>
              ELSE LET sk == Seek(kind, NewList(st, kind), 1, FALSE)
                   IN  /\ run' = [run EXCEPT ![r] = Positioned(st, kind, sk)]
                       /\ MarkProcessed(kind, sk.marked)
                       /\ UNCHANGED nfail
        /\ hist' = Settle(r)
        /\ UNCHANGED <<mq, fq, sq, eq, rq, alerts, audit_logs, cycles, nops, skipped>>

\* CVEEnrichmentService.enrich_cve: {} on failure, else the three fields
EnrichChoices == {"failed", "score", "no_score"}

NoScore == 0 - 1

\* cve.update(enrichment)
UpdateWith(cve, e) ==
    IF e = "failed" THEN cve
    ELSE [cve EXCEPT !.cvss_score = IF e = "score" THEN 55 ELSE NoScore]

AuditEntry(kind, uid, vid) ==
    [user_id |-> uid, action |-> "create_alert",
     target_type |-> IF kind = "cve" THEN "CVE" ELSE "Vendor Advisory",
     target_id |-> vid]

\* _create_alert_from_cve / _create_alert_from_advisory up to the call of
\* log_audit, for record rec and affected row p.  xo, fo: outcome of the
\* existence query and of the flush; br: whether a failed query leaves the
\* session unusable; eo, so, wo: outcome of the email, slack and webhook sends.
\* Result: the invocation's new locals, whether log_audit is reached, the
\* identity skipped, and the number of store failures that occurred.
CreateAlert(st, kind, rec, p, xo, br, fo, eo, so, wo) ==
    LET uid == p.user.id
        aid == p.asset.id
        vid == RecId(kind, rec)
        col == IF kind = "cve" THEN "cve_id" ELSE "vendor_advisory_id"
        caught(site, s2) == IF handler_of(site) = "_create_alert" THEN s2
                            ELSE Aborted(s2, site)
        existing == scalar_one_or_none(Visible(st), col, uid, aid, vid)
        row == IF kind = "cve"
               THEN NewAlert(p.user, p.asset, vid, None, rec.severity, rec.cvss_score)
               ELSE NewAlert(p.user, p.asset, None, vid, rec.severity, NoScore)
        inserted == [st EXCEPT !.pending = Append(@, row)]
        mail == send_email(eo)
        urls == notify_urls(notify_user_argument(p.user))
        slack == IF urls.slack # None THEN hook_send(urls.slack, so) ELSE Returns("skipped")
        hook == IF urls.webhook # None THEN hook_send(urls.webhook, wo) ELSE Returns("skipped")
        flow == [user_id |-> uid, asset_id |-> aid, vid |-> vid,
                 email |-> IF ~email_is_configured THEN "skipped"
                           ELSE IF mail.value THEN "sent" ELSE "failed",
                 slack_url |-> urls.slack, slack |-> slack.value,
                 webhook_url |-> urls.webhook, webhook |-> hook.value]
    IN  IF st.broken \/ xo = "fail"
        THEN [st |-> caught("exists", [st EXCEPT !.broken = st.broken \/ br]),
              audit |-> FALSE, skip |-> {},
              fails |-> IF st.broken THEN 0 ELSE 1]
        ELSE IF existing = "raises"
        THEN [st |-> caught("exists", st), audit |-> FALSE,
              skip |-> {<<uid, aid, vid>>}, fails |-> 0]
        ELSE IF existing = "one"
        THEN [st |-> st, audit |-> FALSE, skip |-> {<<uid, aid, vid>>}, fails |-> 0]
        ELSE IF ~AlertCtorAccepts(IF kind = "cve" THEN CveAlertKwargs
                                  ELSE AdvisoryAlertKwargs)
        THEN [st |-> caught("ctor", st), audit |-> FALSE, skip |-> {}, fails |-> 0]
        ELSE IF fo = "fail"
        THEN [st |-> caught("flush", [st EXCEPT !.broken = TRUE, !.pending = <<>>]),
              audit |-> FALSE, skip |-> {}, fails |-> 1]
        ELSE IF mail.raised
        THEN [st |-> caught("email", inserted), audit |-> FALSE, skip |-> {},
              fails |-> 0]
        ELSE IF slack.raised \/ hook.raised
        THEN [st |-> caught("notify", inserted), audit |-> FALSE, skip |-> {},
              fails |-> 0]
        ELSE [st |-> [inserted EXCEPT !.pc = "audit", !.flow = flow],
              audit |-> TRUE, skip |-> {}, fails |-> 0]

\* a notification of the flow went out: the email was accepted or a webhook
\* send completed
Dispatched(flow) ==
    flow.email = "sent" \/ flow.slack = "ok" \/ flow.webhook = "ok"

\* a loop that stays on the same (user, asset) row
AdvanceNever(st, kind) ==
    IF st.pc = "idle" THEN [st |-> st, marked |-> {}]
    ELSE [st |-> [st EXCEPT !.pc = "pair", !.flow = NoFlow], marked |-> {}]

\* after a (user, asset) row: the next row, or mark the record processed and
\* go on to the next record with affected rows (lines 106-110, 140-144)
AdvanceFrom(st, kind) ==
    IF st.pc = "idle" THEN [st |-> st, marked |-> {}]
    ELSE IF st.j < Len(st.pairs)
    THEN [st |-> [st EXCEPT !.pc = "pair", !.j = @ + 1, !.flow = NoFlow],
          marked |-> {}]
    ELSE LET sk == Seek(kind, NewList(st, kind), st.i + 1, st.broken)
         IN  [st |-> Positioned(st, kind, sk),
              marked |-> sk.marked \cup {RecId(kind, NewList(st, kind)[st.i])}]

\* one iteration of `for user, asset in affected_combinations`, up to the
\* call of log_audit or, when it is not reached, up to the next iteration
PairWith(r, e, xo, br, fo, eo, so, wo) ==
    LET st == run[r]
        kind == st.phase
        rec == IF kind = "cve" THEN UpdateWith(st.cves[st.i], e) ELSE st.advs[st.i]
        st1 == IF kind = "cve" THEN [st EXCEPT !.cves[st.i] = rec] ELSE st
        res == CreateAlert(st1, kind, rec, st.pairs[st.j], xo, br, fo, eo, so, wo)
        adv == AdvanceFrom(res.st, kind)
    IN  /\ nfail' = nfail + res.fails
        /\ skipped' = skipped \cup res.skip
        /\ IF res.audit
           THEN /\ run' = [run EXCEPT ![r] = res.st]
                /\ UNCHANGED <<processed_cves, processed_advisories>>
           ELSE /\ run' = [run EXCEPT ![r] = adv.st]
                /\ MarkProcessed(kind, adv.marked)
        /\ hist' = IF r \in DOMAIN hist /\ res.audit /\ Dispatched(res.st.flow)
                   THEN [hist EXCEPT ![r].notified =
                            @ \cup {<<res.st.flow.user_id, res.st.flow.asset_id,
                                      res.st.flow.vid>>}]
                   ELSE Settle(r)
        /\ UNCHANGED <<mq, fq, sq, eq, rq, alerts, audit_logs, cycles, nops>>

\* whether the flow reaches db.flush() when the existence query has outcome xo
ReachesFlush(r, e, xo) ==
    LET st == run[r]
        kind == st.phase
        rec == IF kind = "cve" THEN UpdateWith(st.cves[st.i], e) ELSE st.advs[st.i]
    IN  CreateAlert(st, kind, rec, st.pairs[st.j], xo, FALSE, "ok",
                    "sent", "ok", "ok").audit

\* the outcomes of the calls an iteration makes; a call that is not reached
\* has no outcome to choose
Pair(r) ==
    /\ run[r].pc = "pair"
    /\ \E e \in (IF run[r].phase = "cve" THEN EnrichChoices ELSE {"failed"}),
          xo \in StoreChoices :
          \E br \in (IF xo = "fail" THEN BOOLEAN ELSE {FALSE}) :
             IF ~ReachesFlush(r, e, xo)
             THEN PairWith(r, e, xo, br, "ok", "sent", "ok", "ok")
             ELSE \E fo \in StoreChoices :
                     IF fo = "fail"
                     THEN PairWith(r, e, xo, br, fo, "sent", "ok", "ok")
                     ELSE \E eo \in EmailOutcomes, so \in HookOutcomes,
                             wo \in HookOutcomes :
                             PairWith(r, e, xo, br, fo, eo, so, wo)

\* log_audit (lines 340-348): add the entry and commit the session; br:
\* whether a failed commit leaves the session unusable
LogAudit(r) ==
    LET st == run[r]
        kind == st.phase
        entry == AuditEntry(kind, st.flow.user_id, st.flow.vid)
    IN  /\ st.pc = "audit"
        /\ \E x \in StoreChoices, br \in BOOLEAN :
              LET ok == x = "ok"
                  st1 == IF ok THEN [st EXCEPT !.pending = <<>>]
                         ELSE IF handler_of("audit_commit") = "log_audit"
                         THEN [st EXCEPT !.pending = <<>>, !.broken = br]
                         ELSE Aborted(st, "audit_commit")
                  adv == AdvanceFrom(st1, kind)
              IN  /\ (ok => ~br)
                  /\ alerts' = IF ok THEN alerts \o st.pending ELSE alerts
                  /\ audit_logs' = IF ok THEN Append(audit_logs, entry) ELSE audit_logs
                  /\ nfail' = IF ok THEN nfail ELSE nfail + 1
                  /\ run' = [run EXCEPT ![r] =
                                IF adv.st.pc = "idle" THEN adv.st
                                ELSE [adv.st EXCEPT !.flow = st.flow]]
                  /\ MarkProcessed(kind, adv.marked)
        /\ hist' = Settle(r)
        /\ UNCHANGED <<mq, fq, sq, eq, rq, cycles, nops, skipped>>

\* await db.commit() closing _process_cves / _process_vendor_advisories; a
\* session left in a rolled-back transaction raises or commits nothing
Commit(r) ==
    LET st == run[r]
        kind == st.phase
    IN  /\ st.pc = "commit"
        /\ \E x \in (IF st.broken THEN {"ok", "pending_rollback"} ELSE StoreChoices) :
              LET ok == x = "ok"
              IN  /\ alerts' = IF ok THEN alerts \o st.pending ELSE alerts
                  /\ nfail' = IF x = "fail" THEN nfail + 1 ELSE nfail
                  /\ run' = [run EXCEPT ![r] =
                        IF ~ok THEN Aborted(st, "final_commit")
                        ELSE IF kind = "cve" THEN EnterAdvisories(st.advs)
                        ELSE Completed]
        /\ hist' = Settle(r)
        /\ UNCHANGED <<mq, fq, sq, eq, rq, processed_cves, processed_advisories, audit_logs,
                       cycles, nops, skipped>>

\* VulnerabilityScheduler._run_cleanup_tasks
RunCleanupTasks ==
    /\ processed_cves' = {}
    /\ processed_advisories' = {}
    /\ hist' = [r \in DOMAIN hist |->
                  IF run[r].pc # "idle" THEN [hist[r] EXCEPT !.cleared = TRUE]
                  ELSE hist[r]]
    /\ UNCHANGED <<mq, fq, sq, eq, rq, alerts, audit_logs, run, cycles, nfail, nops, skipped>>

(***************************************************************************)
(* Tenant API (routers/alerts.py).  get_active_user admits active tenants. *)
(***************************************************************************)
ActiveUsers == {k \in 1..Len(Users) : Users[k].is_active}

NoRequest == [op |-> "none", uid |-> 0, alert_id |-> 0, code |-> 0]

\* a lookup by Alert.id alone, without the filter on Alert.user_id
AnyAlert(alert_id, uid) == alert_id \in 1..Len(alerts)

\* select(Alert).where(Alert.id == alert_id, Alert.user_id == current_user.id)
OwnAlert(alert_id, uid) ==
    alert_id \in 1..Len(alerts) /\ alerts[alert_id].user_id = uid

\* the request and its response: 404 when the lookup finds no row, else 200
Request(op, uid, alert_id) ==
    [op |-> op, uid |-> uid, alert_id |-> alert_id,
     code |-> IF OwnAlert(alert_id, uid) THEN 200 ELSE 404]

\* AlertUpdate: each field absent from the body ("unset"), null, or a value
UpdateBodies ==
    [status : {"unset", None} \cup AlertStatus,
     acknowledged_at : {"unset", None, "ts"}]

\* PATCH /alerts/{alert_id}: setattr of every field the body sets
update_alert ==
    /\ nops < MaxTenantOps
    /\ \E uid \in ActiveUsers, alert_id \in 1..(Len(alerts) + 1), body \in UpdateBodies :
          /\ alerts' = IF ~OwnAlert(alert_id, uid) THEN alerts
                    ELSE [alerts EXCEPT ![alert_id] =
                            [@ EXCEPT
                               !.status = IF body.status = "unset" THEN @
                                          ELSE body.status,
                               !.acknowledged_at =
                                   IF body.acknowledged_at = "unset" THEN @
                                   ELSE body.acknowledged_at]]
          /\ rq' = Request("update_alert", uid, alert_id)
    /\ nops' = nops + 1
    /\ UNCHANGED <<mq, fq, sq, eq, hist, processed_cves, processed_advisories, audit_logs, run,
                   cycles, nfail, skipped>>

\* POST /alerts/{alert_id}/acknowledge
acknowledge_alert ==
    /\ nops < MaxTenantOps
    /\ \E uid \in ActiveUsers, alert_id \in 1..(Len(alerts) + 1) :
          /\ alerts' = IF ~OwnAlert(alert_id, uid) THEN alerts
                    ELSE [alerts EXCEPT ![alert_id] =
                            [@ EXCEPT !.status = "acknowledged",
                                      !.acknowledged_at = "ts"]]
          /\ rq' = Request("acknowledge_alert", uid, alert_id)
    /\ nops' = nops + 1
    /\ UNCHANGED <<mq, fq, sq, eq, hist, processed_cves, processed_advisories, audit_logs, run,
                   cycles, nfail, skipped>>

(***************************************************************************)
(* CVE parsing (cve_scraper.py): base score and severity.  Scores are in   *)
(* tenths, so 9.0 is 90; an absent score (None) is NoScore.                *)
(***************************************************************************)
\* thresholds compared with > instead of >=
get_severity_strict(cvss_score) ==
    IF cvss_score = NoScore THEN "unknown"
    ELSE IF cvss_score > 90 THEN "critical"
    ELSE IF cvss_score > 70 THEN "high"
    ELSE IF cvss_score > 40 THEN "medium"
    ELSE "low"

\* CVEScraper._get_severity_from_score
get_severity_from_score(cvss_score) ==
    IF cvss_score = NoScore THEN "unknown"
    ELSE IF cvss_score >= 90 THEN "critical"
    ELSE IF cvss_score >= 70 THEN "high"
    ELSE IF cvss_score >= 40 THEN "medium"
    ELSE "low"

\* metrics[cvss_version] of a CVE item: the key is absent, the list is empty,
\* or its first entry lacks "cvssData", has it without "baseScore", has a
\* baseScore that is not a number, or has a numeric baseScore
MetricShapes == {"absent", "empty", "no_cvssData", "no_baseScore", "text", "number"}

RECURSIVE parse_metrics(_, _)
\* the loop of _parse_cve over cvssMetricV31, cvssMetricV30, cvssMetricV2
\* (lines 102-113), from version k on; comparing a non-number raises TypeError
parse_metrics(metrics, k) ==
    IF k > Len(metrics)
    THEN [raised |-> FALSE, cvss_score |-> NoScore, severity |-> "unknown"]
    ELSE IF metrics[k].shape \in {"absent", "empty", "no_cvssData"}
    THEN parse_metrics(metrics, k + 1)
    ELSE IF metrics[k].shape = "text"
    THEN [raised |-> TRUE, cvss_score |-> NoScore, severity |-> "unknown"]
    ELSE LET cvss_score == IF metrics[k].shape = "number" THEN metrics[k].baseScore
                           ELSE NoScore
         IN  [raised |-> FALSE, cvss_score |-> cvss_score,
              severity |-> get_severity_from_score(cvss_score)]

\* CVEScraper._parse_cve: the record's score and severity, or {} after an
\* exception
parse_cve(metrics) ==
    LET res == parse_metrics(metrics, 1)
    IN  IF res.raised THEN [parsed |-> FALSE, cvss_score |-> NoScore, severity |-> None]
        ELSE [parsed |-> TRUE, cvss_score |-> res.cvss_score, severity |-> res.severity]

\* the parser harness
BoundaryScores == {0, 39, 40, 69, 70, 89, 90, MaxScore}

Metric(shape, baseScore) == [shape |-> shape, baseScore |-> baseScore]

MetricEntries ==
    {Metric(sh, NoScore) : sh \in MetricShapes \ {"number"}}
        \cup {Metric("number", b) : b \in BoundaryScores}

NoParse == [kind |-> "none", cvss_score |-> NoScore, metrics |-> <<>>, done |-> FALSE,
            parsed |-> FALSE, out_score |-> NoScore, severity |-> None]

ScoreCalls ==
    {[NoParse EXCEPT !.kind = "score", !.cvss_score = s] :
        s \in (0..MaxScore) \cup {NoScore}}

ParseCalls ==
    {[NoParse EXCEPT !.kind = "parse", !.metrics = <<a, b, c>>] :
        a \in MetricEntries, b \in MetricEntries, c \in MetricEntries}

\* one call of _get_severity_from_score
ApplyGetSeverity ==
    /\ sq.kind = "score" /\ ~sq.done
    /\ sq' = [sq EXCEPT !.done = TRUE, !.parsed = TRUE, !.out_score = sq.cvss_score,
                        !.severity = get_severity_from_score(sq.cvss_score)]

\* one call of _parse_cve
ApplyParseCve ==
    /\ sq.kind = "parse" /\ ~sq.done
    /\ LET rec == parse_cve(sq.metrics)
       IN  sq' = [sq EXCEPT !.done = TRUE, !.parsed = rec.parsed,
                            !.out_score = rec.cvss_score, !.severity = rec.severity]

(***************************************************************************)
(* Email channel (email_alert.py): one call of EmailService._send_email.    *)
(***************************************************************************)
\* Retry(total=3, ...): the number of retries allowed after the first attempt
retry_total == 3

\* Retry(status_forcelist=[429, 500, 502, 503, 504])
status_forcelist == {429, 500, 502, 503, 504}

\* Retry(allowed_methods=...) is not passed: the adapter retries idempotent
\* methods only
allowed_methods == {"HEAD", "GET", "PUT", "DELETE", "OPTIONS", "TRACE"}

\* Retry._is_method_retryable / Retry.is_retry as session.post consults them
is_method_retryable(method) == method \in allowed_methods

is_retry(method, status_code) ==
    is_method_retryable(method) /\ status_code \in status_forcelist

\* what one attempt of the POST ends with: a response with a status, a
\* connection that is not established (refused, connect timeout), or an error
\* after the request was sent (reset, read timeout of 30 s)
Responses ==
    {[error |-> "none", status |-> s] : s \in {200, 400} \cup status_forcelist}
      \cup {[error |-> e, status |-> 0] : e \in {"connect", "read"}}

NoSend == [kind |-> "none", to |-> 0, total |-> retry_total, log |-> <<>>,
           done |-> FALSE, ok |-> FALSE]

\* send_vulnerability_alert / send_vendor_advisory_alert to user.email
EmailCalls ==
    {[NoSend EXCEPT !.kind = k, !.to = Users[u].id] :
        k \in {"send_vulnerability_alert", "send_vendor_advisory_alert"},
        u \in 1..Len(Users)}

\* one attempt of session.post(...) inside _send_email (lines 325-349): the
\* adapter retries while the Retry object allows it, otherwise the response is
\* returned or the error raised, and _send_email returns status_code == 200
\* or, from its except clause, False
PostAttempt ==
    /\ eq.kind # "none" /\ ~eq.done
    /\ \E resp \in Responses :
          LET log == Append(eq.log, resp)
              retry == \/ resp.error = "connect"
                       \/ resp.error = "read" /\ is_method_retryable("POST")
                       \/ resp.error = "none" /\ is_retry("POST", resp.status)
          IN  IF retry /\ eq.total > 0
              THEN eq' = [eq EXCEPT !.log = log, !.total = @ - 1]
              ELSE eq' = [eq EXCEPT !.log = log, !.done = TRUE,
                                    !.ok = /\ ~retry /\ resp.error = "none"
                                           /\ resp.status = 200]

(***************************************************************************)
(* Specifications.                                                         *)
(***************************************************************************)
\* AlertChecker.__init__, empty tables, no job running
EngineInit ==
    /\ processed_cves = {} /\ processed_advisories = {}
    /\ alerts = <<>> /\ audit_logs = <<>>
    /\ run = [r \in Runners |-> IdleRun]
    /\ cycles = 0 /\ nfail = 0 /\ nops = 0 /\ skipped = {}

Init == EngineInit /\ mq = NoCall /\ fq = NoFetch /\ sq = NoParse /\ eq = NoSend /\ rq = NoRequest /\ hist = NoObserver

\* the engine with its two entry points and the maintenance job
Next ==
    \/ StartScheduled
    \/ StartManual
    \/ \E r \in Runners : Inventory(r)
    \/ \E r \in Runners : Pair(r)
    \/ \E r \in Runners : LogAudit(r)
    \/ \E r \in Runners : Commit(r)
    \/ RunCleanupTasks

Spec == Init /\ [][Next]_vars

\* the service with cycles following one another (scheduled job only), the
\* maintenance job and the tenant API
NextSequential ==
    \/ StartScheduled
    \/ Inventory("sched")
    \/ Pair("sched")
    \/ LogAudit("sched")
    \/ Commit("sched")
    \/ RunCleanupTasks

SpecSequential == Init /\ [][NextSequential]_vars

\* the same service when every call a cycle awaits eventually returns or
\* raises: the event loop then resumes the cycle at each of its steps
SpecFair ==
    /\ Init /\ [][NextSequential]_vars
    /\ WF_vars(Inventory("sched")) /\ WF_vars(Pair("sched"))
    /\ WF_vars(LogAudit("sched")) /\ WF_vars(Commit("sched"))

\* the scheduled job over batches that repeat a record
NextRepeated ==
    \/ StartRepeatedBatch
    \/ Inventory("sched")
    \/ Pair("sched")
    \/ LogAudit("sched")
    \/ Commit("sched")
    \/ RunCleanupTasks

SpecRepeated == Init /\ [][NextRepeated]_vars

\* the scheduled job over Cisco rows of every severity text
NextAnySeverity ==
    \/ StartAnySeverity
    \/ Inventory("sched")
    \/ Pair("sched")
    \/ LogAudit("sched")
    \/ Commit("sched")
    \/ RunCleanupTasks

SpecAnySeverity == Init /\ [][NextAnySeverity]_vars

\* the same service with the scheduled job's invocations observed
ObservedInit ==
    /\ EngineInit /\ mq = NoCall /\ fq = NoFetch /\ sq = NoParse /\ eq = NoSend /\ rq = NoRequest
    /\ hist = [r \in {"sched"} |-> NoHist]

SpecObserved == ObservedInit /\ [][NextSequential]_vars

\* the tenant API over a store holding alerts the engine has inserted
ApiStores ==
    LET a1 == NewAlert(Users[1], Assets[1], None, "cisco-sa-1", "high", NoScore)
        a2 == NewAlert(Users[2], Assets[2], None, "cisco-sa-1", "high", NoScore)
    IN  {<<a1>>, <<a1, a2>>}

ApiInit ==
    /\ alerts \in ApiStores
    /\ audit_logs = [k \in 1..Len(alerts) |->
                        AuditEntry("adv", alerts[k].user_id, alerts[k].vendor_advisory_id)]
    /\ processed_cves = {} /\ processed_advisories = {"cisco-sa-1", "FG-IR-1"}
    /\ run = [r \in Runners |-> IdleRun]
    /\ cycles = 1 /\ nfail = 0 /\ nops = 0 /\ skipped = {}
    /\ hist = NoObserver
    /\ mq = NoCall /\ fq = NoFetch /\ sq = NoParse /\ eq = NoSend /\ rq = NoRequest

ApiNext == update_alert \/ acknowledge_alert

SpecApi == ApiInit /\ [][ApiNext]_vars

\* the matcher applied to one call
MatchInit ==
    /\ mq \in FuzzyCalls \cup CveCalls \cup AdvCalls
    /\ fq = NoFetch /\ sq = NoParse /\ eq = NoSend /\ rq = NoRequest /\ hist = NoObserver /\ EngineInit

MatchNext ==
    /\ (ApplyFuzzyMatch \/ ApplyAffectedByCve \/ ApplyAffectedByAdvisory)
    /\ UNCHANGED <<fq, sq, eq, rq, hist, processed_cves, processed_advisories, alerts, audit_logs,
                   run, cycles, nfail, nops, skipped>>

SpecMatch == MatchInit /\ [][MatchNext]_vars

\* one ingestion
FetchInit ==
    /\ fq \in CveFetches \cup VendorFetches
    /\ mq = NoCall /\ sq = NoParse /\ eq = NoSend /\ rq = NoRequest /\ hist = NoObserver /\ EngineInit

FetchNext ==
    /\ (ApplyFetchRecentCves \/ ApplyFetchAllVendorAdvisories)
    /\ UNCHANGED <<mq, sq, eq, rq, hist, processed_cves, processed_advisories, alerts, audit_logs,
                   run, cycles, nfail, nops, skipped>>

SpecFetch == FetchInit /\ [][FetchNext]_vars

\* the CVE parser applied to one item
ParseInit ==
    /\ sq \in ScoreCalls \cup ParseCalls
    /\ mq = NoCall /\ fq = NoFetch /\ eq = NoSend /\ rq = NoRequest /\ hist = NoObserver /\ EngineInit

ParseNext ==
    /\ (ApplyGetSeverity \/ ApplyParseCve)
    /\ UNCHANGED <<mq, fq, eq, rq, hist, processed_cves, processed_advisories, alerts,
                   audit_logs, run, cycles, nfail, nops, skipped>>

SpecParse == ParseInit /\ [][ParseNext]_vars

\* the email channel applied to one message
EmailInit ==
    /\ eq \in EmailCalls /\ rq = NoRequest
    /\ mq = NoCall /\ fq = NoFetch /\ sq = NoParse /\ hist = NoObserver /\ EngineInit

EmailNext ==
    /\ PostAttempt
    /\ UNCHANGED <<mq, fq, sq, rq, hist, processed_cves, processed_advisories, alerts,
                   audit_logs, run, cycles, nfail, nops, skipped>>

SpecEmail == EmailInit /\ [][EmailNext]_vars

(***************************************************************************)
(* Properties.                                                             *)
(***************************************************************************)
\* composite identity of an alert row: (tenant id, asset id, CVE or advisory id)
Identity(row) ==
    <<row.user_id, row.asset_id,
      IF row.cve_id # None THEN row.cve_id ELSE row.vendor_advisory_id>>

AlertsOf(t) == {k \in 1..Len(alerts) : Identity(alerts[k]) = t}

Running(r) == run[r].pc # "idle"

\* C1: in every reachable state of the alert store, under any interleaving of
\* scheduled cycles, manually triggered cycles and dedup-set clears, no two
\* alert rows have the same composite identity.
C1_OneAlertPerIdentity ==
    \A k1, k2 \in 1..Len(alerts) :
        Identity(alerts[k1]) = Identity(alerts[k2]) => k1 = k2

\* C2: at most one invocation of check_new_vulnerabilities is executing at any
\* time, whether it came from the scheduled job or from
\* trigger_vulnerability_check.
C2_SingleCycle == Cardinality({r \in Runners : Running(r)}) <= 1

\* C3: when cycles follow one another, a triple that already has an alert is
\* skipped by a later cycle: the step that processes it inserts no alert,
\* dispatches nothing and writes no audit entry, and every triple that was
\* processed again, like every triple in the store, has exactly one alert.
C3_SequentialIdempotent ==
    /\ [](/\ \A t \in skipped : Cardinality(AlertsOf(t)) = 1
          /\ \A k \in 1..Len(alerts) : AlertsOf(Identity(alerts[k])) = {k})
    /\ [][\A r \in Runners :
            (/\ run[r].pc = "pair"
             /\ run'[r] # run[r]
             /\ LET p == run[r].pairs[run[r].j]
                    rec == NewList(run[r], run[r].phase)[run[r].i]
                IN  AlertsOf(<<p.user.id, p.asset.id, RecId(run[r].phase, rec)>>) # {})
            => (/\ Len(alerts') = Len(alerts)
                /\ audit_logs' = audit_logs
                /\ run'[r].pending = run[r].pending
                /\ run'[r].pc # "audit"
                /\ run'[r].flow = NoFlow)]_vars

C3_Witness ==
    /\ cycles = 2
    /\ <<1, 1, "cisco-sa-1">> \in skipped
    /\ Cardinality(AlertsOf(<<1, 1, "cisco-sa-1">>)) = 1
    /\ Len(audit_logs) = Len(alerts)
    /\ run["sched"].cnv = "returned"

\* C4: once the status of an alert has left pending it never returns to pending,
\* and once it is acknowledged it never changes; under every operation that
\* writes it.
C4_StatusMonotonic ==
    [][\A k \in 1..Len(alerts) :
          /\ (alerts[k].status # "pending" => alerts'[k].status # "pending")
          /\ (alerts[k].status = "acknowledged" => alerts'[k].status = "acknowledged")]_vars

\* C5: for a newly inserted alert, whichever channel sends fail, every
\* configured channel is attempted and the flow goes on to its audit entry;
\* unless the store itself fails there, the alert and the audit entry are
\* persisted.
C5_DispatchIsolation ==
    [][\A r \in Runners :
          /\ (Len(run'[r].pending) > Len(run[r].pending))
                => (/\ run'[r].pc = "audit"
                    /\ run'[r].flow.email \in {"sent", "failed"}
                    /\ run'[r].flow.slack \in HookOutcomes
                    /\ run'[r].flow.webhook \in HookOutcomes)
          /\ (run[r].pc = "audit" /\ run'[r] # run[r] /\ nfail' = nfail)
                => (/\ alerts' = alerts \o run[r].pending
                    /\ Len(run[r].pending) > 0
                    /\ Identity(alerts'[Len(alerts')]) =
                          <<run[r].flow.user_id, run[r].flow.asset_id, run[r].flow.vid>>
                    /\ Len(audit_logs') = Len(audit_logs) + 1
                    /\ audit_logs'[Len(audit_logs')].target_id = run[r].flow.vid)]_vars

C5_Witness ==
    \E r \in Runners :
        /\ run[r].flow.email = "failed"
        /\ run[r].flow.slack = "error"
        /\ run[r].flow.webhook = "ok"
        /\ run[r].pc # "audit"
        /\ AlertsOf(<<run[r].flow.user_id, run[r].flow.asset_id, run[r].flow.vid>>) # {}
        /\ Len(audit_logs) > 0
        /\ audit_logs[Len(audit_logs)].target_id = run[r].flow.vid

\* C6: when the engine dispatches an alert for a tenant, each webhook channel
\* uses the tenant's own URL if the tenant has one, otherwise the process-wide
\* default, and a channel without any URL is skipped.
C6_TenantOverride ==
    \A r \in Runners :
        run[r].flow.vid # None =>
            LET u == Users[run[r].flow.user_id]
                want_slack == IF u.slack_webhook_url # None THEN u.slack_webhook_url
                              ELSE slack_webhook
                want_hook == IF u.webhook_url # None THEN u.webhook_url
                             ELSE generic_webhook
            IN  /\ run[r].flow.slack_url = want_slack
                /\ run[r].flow.webhook_url = want_hook
                /\ (want_slack = None <=> run[r].flow.slack = "skipped")
                /\ (want_hook = None <=> run[r].flow.webhook = "skipped")

C8_NoFatalError ==
    \A r \in Runners : run[r].cnv # "raised" /\ run[r].job # "raised"

C8_Witness ==
    /\ run["sched"].caught = "inventory"
    /\ run["sched"].phase = "none" /\ run["sched"].pc = "idle"
    /\ run["sched"].cnv = "returned" /\ run["sched"].job = "returned"
    /\ nfail = 1

\* C9 as stated: an asset whose cpe_string is one of the record's affected
\* identifiers is reported affected, regardless of vendor, product and version,
\* and its (tenant, asset) row is in the result of _find_affected_assets.
C9_DirectMatchAnyIdentifier ==
    (mq.kind = "cve" /\ mq.done /\ mq.asset.cpe_string # NoneStr
        /\ InList(mq.asset.cpe_string, mq.cpes))
    => (mq.out /\ InList([user |-> 1, asset |-> mq.asset], mq.found))

\* C9 amended: an asset whose cpe_string is not empty and is one of the record's
\* affected identifiers is reported affected, regardless of vendor, product and
\* version, and its (tenant, asset) row is in the result of _find_affected_assets.
C9_DirectMatch ==
    (mq.kind = "cve" /\ mq.done /\ Truthy(mq.asset.cpe_string)
        /\ InList(mq.asset.cpe_string, mq.cpes))
    => (mq.out /\ InList([user |-> 1, asset |-> mq.asset], mq.found))

C9_Witness ==
    /\ mq.kind = "cve" /\ mq.done
    /\ mq.asset.cpe_string = cpe_cisco_asa
    /\ mq.cpes = <<cpe_apache_2455, cpe_cisco_asa>>
    /\ mq.asset.vendor = NoneStr
    /\ mq.out
    /\ mq.found = <<[user |-> 1, asset |-> mq.asset]>>

\* C10: _fuzzy_match(a, b) = _fuzzy_match(b, a) for all strings a and b.
C10_FuzzySymmetric ==
    (mq.kind = "fuzzy" /\ mq.done) => (mq.out = mq.out2)

C10_Witness ==
    /\ mq.kind = "fuzzy" /\ mq.done
    /\ mq.text1 = s_msft /\ mq.text2 = s_Microsoft
    /\ mq.out /\ mq.out2

\* the alias table as the claim C11 states it: (main vendor, alias)
C11_AliasTable ==
    { <<s_microsoft, s_msft>>, <<s_microsoft, s_ms>>, <<s_cisco, s_csco>>,
      <<s_fortinet, s_forti>> }

\* C11: _fuzzy_match(a, b) is true exactly when the lowercased texts stripped of
\* non-alphanumeric characters are equal, or one contains the other, or one is
\* a main vendor and the other one of its aliases; microsoft/msft, ms/microsoft
\* and cisco/csco match, cisco/juniper, microsoft/apple and fortinet/palo alto
\* do not.
C11_FuzzyMatchDefinition ==
    (mq.kind = "fuzzy" /\ mq.done) =>
        LET a == SelectSeq(Lower(mq.text1), IsLowerAlnum)
            b == SelectSeq(Lower(mq.text2), IsLowerAlnum)
            linked == <<a, b>> \in C11_AliasTable \/ <<b, a>> \in C11_AliasTable
            called == <<mq.text1, mq.text2>>
        IN  /\ mq.out <=> (a = b \/ IsSubstring(a, b) \/ IsSubstring(b, a) \/ linked)
            /\ called \in {<<s_microsoft, s_msft>>, <<s_ms, s_microsoft>>,
                           <<s_cisco, s_csco>>} => mq.out
            /\ called \in {<<s_cisco, s_juniper>>, <<s_microsoft, s_apple>>,
                           <<s_fortinet, s_paloalto>>} => ~mq.out

C11_Witness ==
    /\ mq.kind = "fuzzy" /\ mq.done
    /\ mq.text1 = s_ms /\ mq.text2 = s_microsoft
    /\ ~IsSubstring(s_ms, s_microsoft)
    /\ mq.out

\* the version field of a CPE: the sixth ':'-separated part, empty when absent
C12_CpeVersion(cpe) ==
    IF Len(Split(cpe, ":")) > 5 THEN Lower(Split(cpe, ":")[6]) ELSE <<>>

C12_Open(version) == version \in {NoneStr, <<>>, s_star}

\* C12: when the vendor and the product of an asset both fuzzy-match a CPE of the
\* record, the asset is affected whenever the asset's version or the CPE's
\* version is absent, empty or "*", whatever the other version is.
C12_VersionWildcard ==
    (mq.kind = "cve" /\ mq.done) =>
        \A k \in 1..Len(mq.cpes) :
            (/\ Truthy(mq.asset.vendor) /\ Truthy(mq.asset.product)
             /\ Len(Split(mq.cpes[k], ":")) >= 5
             /\ fuzzy_match(Lower(mq.asset.vendor), Lower(Split(mq.cpes[k], ":")[4]))
             /\ fuzzy_match(Lower(mq.asset.product), Lower(Split(mq.cpes[k], ":")[5]))
             /\ (C12_Open(mq.asset.version) \/ C12_Open(C12_CpeVersion(mq.cpes[k]))))
            => mq.out

\* the records the vendor sources hold, and the vendor named by advisory vid
C13_VendorFeed == CiscoFeed \o FortinetFeed \o MicrosoftFeed

C13_VendorOf(vid) ==
    C13_VendorFeed[CHOOSE k \in 1..Len(C13_VendorFeed) :
                      C13_VendorFeed[k].vendor_advisory_id = vid].vendor

C13_IsAdvisory(vid) ==
    \E k \in 1..Len(C13_VendorFeed) : C13_VendorFeed[k].vendor_advisory_id = vid

C13_VendorMatches(aid, vid) ==
    /\ Truthy(Assets[aid].vendor)
    /\ fuzzy_match(Assets[aid].vendor, C13_VendorOf(vid))

\* C13: advisory matching is on vendor alone.  While a cycle works on an
\* advisory, the rows it holds as affected are exactly the inventory rows whose
\* asset has a vendor that fuzzy-matches the advisory's vendor; and no alert
\* row (committed or flushed) and no dispatch exists for an (asset, advisory)
\* pair whose vendors do not match.
C13_AdvisoryVendorOnly ==
    \A r \in Runners :
        LET st == run[r]
            hit(p) == C13_VendorMatches(p.asset.id, st.advs[st.i].vendor_advisory_id)
            rows == alerts \o st.pending
        IN  /\ (st.phase = "adv" /\ st.pc \in {"pair", "audit"})
                => st.pairs = SelectSeq(ActiveUserAssets, hit)
            /\ \A k \in 1..Len(rows) :
                  rows[k].vendor_advisory_id # None
                    => C13_VendorMatches(rows[k].asset_id, rows[k].vendor_advisory_id)
            /\ C13_IsAdvisory(st.flow.vid)
                    => C13_VendorMatches(st.flow.asset_id, st.flow.vid)
            /\ \A k \in 1..Len(audit_logs) :
                  C13_IsAdvisory(audit_logs[k].target_id)
                    => \E a \in 1..Len(Assets) :
                          /\ Assets[a].user_id = audit_logs[k].user_id
                          /\ C13_VendorMatches(a, audit_logs[k].target_id)

\* a cycle has processed both advisories: the Cisco advisory has its alerts for
\* the two Cisco assets, none for the Apache asset, and FG-IR-1 has none at all
C13_Witness ==
    /\ run["sched"].pc = "idle" /\ run["sched"].cnv = "returned"
    /\ {"cisco-sa-1", "FG-IR-1"} \subseteq processed_advisories
    /\ AlertsOf(<<1, 1, "cisco-sa-1">>) # {}
    /\ AlertsOf(<<2, 2, "cisco-sa-1">>) # {}
    /\ AlertsOf(<<2, 3, "cisco-sa-1">>) = {}
    /\ \A k \in 1..Len(alerts) : alerts[k].vendor_advisory_id # "FG-IR-1"
    /\ ~fuzzy_match(Assets[3].vendor, s_Cisco)

\* C14: _get_severity_from_score returns critical for a score >= 9.0, high for
\* 7.0 <= score < 9.0, medium for 4.0 <= score < 7.0, low for a score < 4.0 and
\* unknown for an absent score; and the severity of a parsed CVE record is the
\* severity of the base score the record carries.
C14_SeverityFromScore ==
    (sq.done /\ sq.parsed) =>
        LET x == sq.out_score
        IN  /\ sq.kind = "score" => x = sq.cvss_score
            /\ sq.severity = "critical" <=> (x # NoScore /\ x >= 90)
            /\ sq.severity = "high" <=> (x # NoScore /\ 70 <= x /\ x < 90)
            /\ sq.severity = "medium" <=> (x # NoScore /\ 40 <= x /\ x < 70)
            /\ sq.severity = "low" <=> (x # NoScore /\ x < 40)
            /\ sq.severity = "unknown" <=> x = NoScore

\* a CVE item without v3.1 metrics whose v3.0 base score is exactly 7.0
C14_Witness ==
    /\ sq.kind = "parse" /\ sq.done /\ sq.parsed
    /\ sq.metrics[1].shape = "empty"
    /\ sq.metrics[2] = Metric("number", 70)
    /\ sq.metrics[3] = Metric("number", 90)
    /\ sq.out_score = 70 /\ sq.severity = "high"

\* C15: every alert the engine inserts has status pending at insertion (when
\* flushed and when committed), and no step of the engine changes a row that is
\* already in the store: after dispatch, whatever its outcome, the alert is
\* still pending.
C15_EngineLeavesPending ==
    /\ [](\A r \in Runners : \A k \in 1..Len(run[r].pending) :
              run[r].pending[k].status = "pending")
    /\ [][/\ Len(alerts') >= Len(alerts)
          /\ \A k \in 1..Len(alerts) : alerts'[k] = alerts[k]
          /\ \A k \in (Len(alerts) + 1)..Len(alerts') :
                alerts'[k].status = "pending"]_vars

\* an alert whose email and webhook dispatch failed is committed and pending,
\* next to an earlier alert that is still pending as well
C15_Witness ==
    /\ Len(alerts) = 2
    /\ run["sched"].flow.email = "failed" /\ run["sched"].flow.webhook = "error"
    /\ Identity(alerts[2]) = <<run["sched"].flow.user_id, run["sched"].flow.asset_id,
                                run["sched"].flow.vid>>
    /\ alerts[1].status = "pending" /\ alerts[2].status = "pending"

\* C16: when enrichment fails for a matched CVE (the record is left as the
\* feed delivered it) and no alert exists yet for the triple, then, unless the
\* store fails, the iteration creates the alert with the record's original
\* fields and dispatches it.
C16_EnrichmentFailureNonFatal ==
    [][\A r \in Runners :
          (/\ run[r].pc = "pair" /\ run[r].phase = "cve"
           /\ run'[r] # run[r] /\ run'[r].phase = "cve"
           /\ run'[r].cves[run[r].i] = run[r].cves[run[r].i]
           /\ nfail' = nfail /\ ~run[r].broken
           /\ LET p == run[r].pairs[run[r].j]
              IN  CountAlerts(Visible(run[r]), "cve_id", p.user.id, p.asset.id,
                              run[r].cves[run[r].i].cve_id) = 0)
          => (/\ Len(run'[r].pending) = Len(run[r].pending) + 1
              /\ LET row == run'[r].pending[Len(run'[r].pending)]
                     rec == run[r].cves[run[r].i]
                 IN  /\ row.cve_id = rec.cve_id
                     /\ row.cvss_score = rec.cvss_score
                     /\ row.severity = rec.severity
              /\ run'[r].flow.vid = run[r].cves[run[r].i].cve_id
              /\ run'[r].flow.email # "none")]_vars

\* C17: the dedup sets shrink only through _run_cleanup_tasks: a step that
\* removes an identifier from processed_cves or processed_advisories is the
\* maintenance job (it empties both sets and is no step of a cycle); every step
\* of a cycle, whether the cycle completes, fails or aborts, leaves each set
\* equal or larger.
C17_DedupShrinksOnlyByCleanup ==
    [][(~(processed_cves \subseteq processed_cves')
          \/ ~(processed_advisories \subseteq processed_advisories'))
        => (/\ processed_cves' = {} /\ processed_advisories' = {}
            /\ run' = run /\ cycles' = cycles /\ nfail' = nfail
            /\ alerts' = alerts /\ audit_logs' = audit_logs)]_vars

\* a second cycle aborted while the identifiers marked by the first are kept
C17_Witness ==
    /\ cycles = 2
    /\ run["sched"].pc = "idle" /\ run["sched"].caught # "none"
    /\ processed_cves = {"CVE-2024-0001"}
    /\ processed_advisories = {"cisco-sa-1", "FG-IR-1"}

\* the step with which invocation r of check_new_vulnerabilities, having
\* processed at least one new record, returns normally
C18_Completes(r) ==
    /\ run[r].pc # "idle"
    /\ run'[r].pc = "idle" /\ run'[r].cnv = "returned" /\ run'[r].caught = "none"

\* C18 as stated: when check_new_vulnerabilities completes a cycle in which the
\* stores were available (no store call has failed), the identifier of every CVE
\* the CVE feed returned is in processed_cves and that of every advisory the
\* vendor feed returned is in processed_advisories.
C18_AllMarkedAtCompletion ==
    [][\A r \in DOMAIN hist :
          (C18_Completes(r) /\ nfail' = 0)
            => (/\ hist[r].cves \subseteq processed_cves'
                /\ hist[r].advs \subseteq processed_advisories')]_vars

\* C18 amended: when check_new_vulnerabilities completes a cycle during which
\* _run_cleanup_tasks did not run (in particular every such cycle in which the
\* stores were available), the identifier of every CVE the CVE feed returned is
\* in processed_cves and that of every advisory the vendor feed returned is in
\* processed_advisories, also when no asset matched them.
C18_AllMarkedUnlessCleared ==
    [][\A r \in DOMAIN hist :
          (C18_Completes(r) /\ ~hist[r].cleared)
            => (/\ hist[r].cves \subseteq processed_cves'
                /\ hist[r].advs \subseteq processed_advisories')]_vars

\* a first cycle that completed with all three records returned, among them
\* FG-IR-1, which matches no asset
C18_Witness ==
    /\ cycles = 1 /\ nfail = 0
    /\ run["sched"].pc = "idle" /\ run["sched"].cnv = "returned"
    /\ run["sched"].caught = "none"
    /\ processed_cves = {"CVE-2024-0001"}
    /\ processed_advisories = {"cisco-sa-1", "FG-IR-1"}
    /\ AlertsOf(<<1, 1, "cisco-sa-1">>) # {}
    /\ \A k \in 1..Len(alerts) : alerts[k].vendor_advisory_id # "FG-IR-1"

\* C19: an alert becomes acknowledged only from status sent or failed: no
\* operation (acknowledge_alert, update_alert) moves an alert from pending
\* directly to acknowledged.
C19_AcknowledgedOnlyAfterDispatch ==
    [][\A k \in 1..Len(alerts) :
          (alerts'[k].status = "acknowledged" /\ alerts[k].status # "acknowledged")
            => alerts[k].status \in {"sent", "failed"}]_vars

\* C20: once dispatch has been attempted for a newly created alert its status
\* moves from pending to sent or failed; stated for finite runs: when the cycle
\* that created and dispatched an alert has returned (every stored alert was
\* dispatched before it was committed), the alert is sent or failed, not
\* pending.
C20_DispatchedLeavesPending ==
    (\A r \in Runners : run[r].pc = "idle")
        => \A k \in 1..Len(alerts) : alerts[k].status \in {"sent", "failed"}

\* C21: enrichment never replaces a non-empty field of a CVE record by an empty
\* one: a record whose cvss_score is present before the enrichment result is
\* merged still has a cvss_score afterwards.
C21_EnrichmentKeepsFields ==
    [][\A r \in Runners :
          (/\ run[r].pc = "pair" /\ run[r].phase = "cve" /\ run'[r].phase = "cve"
           /\ run[r].cves[run[r].i].cvss_score # NoScore)
          => run'[r].cves[run[r].i].cvss_score # NoScore]_vars

\* C22: an identifier enters the dedup set only after its record was processed
\* successfully: the step in which creating the alert for a matched (tenant,
\* asset) pair of a record fails on the store does not add the record's
\* identifier to processed_cves / processed_advisories.
C22_MarkedOnlyAfterSuccess ==
    [][\A r \in Runners :
          (run[r].pc = "pair" /\ run'[r] # run[r] /\ nfail' > nfail)
          => LET kind == run[r].phase
                 vid == RecId(kind, NewList(run[r], kind)[run[r].i])
             IN  /\ vid \notin processed_cves'
                 /\ vid \notin processed_advisories']_vars

\* C23: between two clears of the dedup set each identifier is matched against
\* the assets at most once, also when it occurs more than once in one batch:
\* the record a cycle is creating alerts for (it has just been matched) has an
\* identifier that is not in the dedup set and differs from that of every
\* record the cycle has matched before it.
C23_MatchedAtMostOnce ==
    \A r \in Runners :
        run[r].pc \in {"pair", "audit"} =>
            LET kind == run[r].phase
                new == NewList(run[r], kind)
                vid == RecId(kind, new[run[r].i])
            IN  /\ vid \notin processed_cves \cup processed_advisories
                /\ \A k \in 1..(run[r].i - 1) : RecId(kind, new[k]) # vid

\* C24: store unavailability aborts the current cycle entirely: the step of a
\* cycle in which an inventory read or an alert-store operation (existence
\* check, flush, commit) fails ends the cycle, so that no further record or
\* (tenant, asset) pair is processed in it.
C24_StoreFailureAbortsCycle ==
    [][\A r \in Runners :
          (run[r].pc # "idle" /\ run'[r] # run[r] /\ nfail' > nfail)
          => (run'[r].pc = "idle" /\ run'[r].caught # "none")]_vars

\* the vendor and the product of the asset both fuzzy-match those of this CPE
C25_VendorAndProductMatch(asset, cpe) ==
    /\ Len(Split(cpe, ":")) >= 5
    /\ fuzzy_match(Lower(asset.vendor), Lower(Split(cpe, ":")[4]))
    /\ fuzzy_match(Lower(asset.product), Lower(Split(cpe, ":")[5]))

C25_NoDirectMatch ==
    ~(Truthy(mq.asset.cpe_string) /\ InList(mq.asset.cpe_string, mq.cpes))

\* C25: without a direct CPE match an asset is reported affected only if it has
\* a vendor and a product and both fuzzy-match the vendor and product fields of
\* one and the same affected CPE.
C25_FuzzyNeedsOneCpe ==
    (mq.kind = "cve" /\ mq.done /\ C25_NoDirectMatch /\ mq.out) =>
        /\ Truthy(mq.asset.vendor) /\ Truthy(mq.asset.product)
        /\ \E k \in 1..Len(mq.cpes) : C25_VendorAndProductMatch(mq.asset, mq.cpes[k])

\* the vendor matches the second CPE only, the product the first only
C25_Witness ==
    /\ mq.kind = "cve" /\ mq.done /\ C25_NoDirectMatch
    /\ mq.asset.vendor = s_Cisco /\ mq.asset.product = s_ASA
    /\ mq.asset.version = s_2454
    /\ mq.cpes = <<cpe_apache_asa, cpe_cisco_http>>
    /\ fuzzy_match(Lower(mq.asset.vendor), Lower(Split(mq.cpes[2], ":")[4]))
    /\ fuzzy_match(Lower(mq.asset.product), Lower(Split(mq.cpes[1], ":")[5]))
    /\ ~mq.out

\* a version that is present and is not the wildcard
C26_Given(version) == version \notin {NoneStr, <<>>, s_star}

\* C26: without a direct CPE match, when the version of the asset and the
\* version of every CPE matching its vendor and product are present and are not
\* "*", the asset is reported affected only if its lowercased version equals
\* the version of one of those CPEs.
C26_ExactVersion ==
    (/\ mq.kind = "cve" /\ mq.done /\ C25_NoDirectMatch
     /\ C26_Given(mq.asset.version)
     /\ \A k \in 1..Len(mq.cpes) :
           C25_VendorAndProductMatch(mq.asset, mq.cpes[k])
              => C26_Given(C12_CpeVersion(mq.cpes[k]))
     /\ mq.out)
    => \E k \in 1..Len(mq.cpes) :
          /\ C25_VendorAndProductMatch(mq.asset, mq.cpes[k])
          /\ Lower(mq.asset.version) = C12_CpeVersion(mq.cpes[k])

\* 2.4.54 against a record that names 2.4.55 only: not affected
C26_Witness ==
    /\ mq.kind = "cve" /\ mq.done /\ C25_NoDirectMatch
    /\ mq.asset.vendor = s_Apache /\ mq.asset.product = s_HTTPServer
    /\ mq.asset.version = s_2454
    /\ mq.cpes = <<cpe_apache_2455, cpe_cisco_asa>>
    /\ C25_VendorAndProductMatch(mq.asset, mq.cpes[1])
    /\ C12_CpeVersion(mq.cpes[1]) = s_2455
    /\ ~mq.out

\* the actor of an audit entry is the system, i.e. no tenant of table "users"
C27_ActorIsSystem(entry) ==
    \A k \in 1..Len(Users) : entry.user_id # Users[k].id

\* the j-th entry appended by a step describes the j-th alert it inserted
C27_Describes(entry, alert) ==
    /\ entry.action = "create_alert"
    /\ entry.target_id = Identity(alert)[3]

\* C27: every step of the engine keeps the audit entries it finds, and appends
\* exactly one entry for each alert it inserts, with the system as actor and the
\* CVE or advisory identifier of the alert as target id.
C27_OneAuditEntryPerAlert ==
    [][/\ Len(audit_logs') >= Len(audit_logs)
       /\ SubSeq(audit_logs', 1, Len(audit_logs)) = audit_logs
       /\ Len(alerts') >= Len(alerts)
       /\ Len(audit_logs') - Len(audit_logs) = Len(alerts') - Len(alerts)
       /\ \A j \in 1..(Len(alerts') - Len(alerts)) :
             /\ C27_Describes(audit_logs'[Len(audit_logs) + j], alerts'[Len(alerts) + j])
             /\ C27_ActorIsSystem(audit_logs'[Len(audit_logs) + j])]_vars

\* C28: the existence check comes first: a step for a matched (tenant, asset,
\* CVE) mutates the record by enrichment only if its existence query was
\* answered, and answered that no alert of this identity exists.
C28_ExistenceCheckFirst ==
    [][\A r \in Runners :
          (/\ run[r].pc = "pair" /\ run[r].phase = "cve" /\ run'[r].phase = "cve"
           /\ run'[r].cves[run[r].i] # run[r].cves[run[r].i])
          => LET p == run[r].pairs[run[r].j]
                 vid == RecId("cve", run[r].cves[run[r].i])
             IN  /\ ~run[r].broken
                 /\ nfail' = nfail
                 /\ AlertsOf(<<p.user.id, p.asset.id, vid>>) = {}]_vars

\* the statuses the claim C29 names as retryable
C29_Retryable == {429, 500, 502, 503, 504}

\* C29: for one message the email send is attempted at most 3 times, every
\* attempt after the first follows a response with a retryable status, and a
\* send that ends without a 200 response is reported as a failure.
C29_BoundedRetry ==
    eq.kind # "none" =>
        /\ Len(eq.log) <= 3
        /\ \A k \in 2..Len(eq.log) :
              eq.log[k - 1].error = "none" /\ eq.log[k - 1].status \in C29_Retryable
        /\ (eq.done /\ eq.log[Len(eq.log)] # [error |-> "none", status |-> 200])
              => ~eq.ok

\* C30: every alert in the store has one of the four severities of the enum
\* Severity: low, medium, high, critical.
C30_SeverityInEnum ==
    \A k \in 1..Len(alerts) :
        alerts[k].severity \in {"low", "medium", "high", "critical"}

\* C31: _fuzzy_match is false whenever one of its arguments normalizes to the
\* empty string, and an advisory whose vendor normalizes to the empty string
\* affects no asset.
C31_NoMatchOnEmptyName ==
    /\ (/\ mq.kind = "fuzzy" /\ mq.done
        /\ (normalize(mq.text1) = <<>> \/ normalize(mq.text2) = <<>>))
          => ~mq.out
    /\ (mq.kind = "adv" /\ mq.done /\ normalize(mq.text2) = <<>>)
          => (~mq.out /\ mq.found = <<>>)

\* C32: every alert in the store belongs to the tenant that owns its asset,
\* and that tenant is active in the inventory the cycles read.
C32_AlertsOfOwningActiveTenant ==
    \A k \in 1..Len(alerts) :
        \E a \in 1..Len(Assets) :
            /\ Assets[a].id = alerts[k].asset_id
            /\ Assets[a].user_id = alerts[k].user_id
            /\ \E u \in 1..Len(Users) :
                  Users[u].id = alerts[k].user_id /\ Users[u].is_active

\* cisco-sa-1 has been processed for every asset: the two Cisco assets of the
\* active tenants are alerted, the Cisco asset 4 of the inactive tenant 3 is not
C32_Witness ==
    /\ AlertsOf(<<1, 1, "cisco-sa-1">>) # {}
    /\ AlertsOf(<<2, 2, "cisco-sa-1">>) # {}
    /\ "cisco-sa-1" \in processed_advisories
    /\ Assets[4].user_id = 3 /\ ~Users[3].is_active
    /\ is_asset_affected_by_vendor_advisory(Assets[4], CiscoFeed[1])
    /\ \A k \in 1..Len(alerts) : alerts[k].asset_id # 4

\* C33: when an invocation of the cycle ends, every alert it sent an email or
\* webhook notification for is in the alert store.
C33_NotifiedAlertsPersisted ==
    [][\A r \in DOMAIN hist :
          (run[r].pc # "idle" /\ run'[r].pc = "idle")
            => \A t \in hist[r].notified :
                  \E k \in 1..Len(alerts') : Identity(alerts'[k]) = t]_vars

C35_TenantIsolation ==
    [][nops' > nops =>
          /\ (/\ rq'.alert_id \in 1..Len(alerts)
              /\ alerts[rq'.alert_id].user_id # rq'.uid)
                => (rq'.code = 404 /\ alerts' = alerts)
          /\ Len(alerts') = Len(alerts)
          /\ \A k \in 1..Len(alerts) :
                alerts'[k] # alerts[k] => alerts[k].user_id = rq'.uid]_vars

\* tenant 2 has called acknowledge_alert on alert 1 of tenant 1
C35_Witness ==
    /\ rq = [op |-> "acknowledge_alert", uid |-> 2, alert_id |-> 1, code |-> 404]
    /\ nops = 1
    /\ alerts[1].user_id = 1
    /\ alerts[1].status = "pending" /\ alerts[1].acknowledged_at = None

\* C36: every started cycle terminates: when each awaited call eventually
\* returns or raises, an invocation of check_new_vulnerabilities that has
\* started eventually returns, whichever of its calls fail.
C36_CycleTerminates ==
    (run["sched"].pc # "idle")
        ~> (run["sched"].pc = "idle" /\ run["sched"].cnv = "returned")

\* a cycle in which a store call failed has run to its end, with an alert stored
C36_Witness ==
    /\ cycles = 1 /\ nfail = 1
    /\ run["sched"].pc = "idle" /\ run["sched"].cnv = "returned"
    /\ run["sched"].caught = "none"
    /\ Len(alerts) >= 1
    /\ {"cisco-sa-1", "FG-IR-1"} \subseteq processed_advisories

=============================================================================
